---- MODULE Spec2Model ----
(***************************************************************************)
(* Model of bdo_tracker.py: the session timer of class App, the session    *)
(* store written by add_session, the price table SPOTS with its editor,    *)
(* and the money formatter.                                                *)
(*                                                                         *)
(* Texts (entry contents, location names, formatted labels) are sequences  *)
(* of one-character strings, so that int(), str.strip() and the f-string   *)
(* formatting are modelled by what they do to the characters.              *)
(***************************************************************************)
EXTENDS Integers, Sequences, FiniteSets, TLC

\* ---- bounds of the model ----
MaxMinutes == 2        \* Spec: the minute counter is not advanced past this value
MaxPending == 1        \* Spec: at most this many `after` callbacks are queued
MaxSessions == 1       \* Spec: at most this many rows are inserted
MaxTimerMinutes == 3   \* SpecTimer: bound of the minute counter
MaxTimerPending == 2   \* SpecTimer: bound of the queued callbacks
MaxTimerSessions == 2  \* SpecTimer: bound of the inserted rows
MaxMult == 50          \* SpecFmt: money-format inputs are multiples of 500 up to this

VARIABLES
    running,      \* App.running
    minutes,      \* App.minutes
    timer_id,     \* App.timer_id; 0 stands for None
    pending,      \* ids of the update_timer callbacks queued by root.after
    trash_start,  \* App.trash_start: <<>> while the attribute is not set, else <<n>>
    SPOTS,        \* the module-level dict, as the sequence of its items in insertion order
    spot_file,    \* content of spot.json: <<"absent">> or <<"dict", items>>
    spot_var,     \* App.spot_var (text of the location combobox)
    sessions,     \* rows of table sessions, in id order
    total_label,  \* text that update_total puts after the prefix of total_label
    money_in,     \* argument of the last format_money call of a message box
    money_out,    \* result of that call
    ret,          \* pair returned by the last add_session call, <<>> before the first
    ended,        \* history: TRUE iff an end_session inserted a row after the last start
                  \* that passed validation
    nticks,       \* history: callbacks that fired with running set since that start
    interrupted   \* history: TRUE iff that start came during a session, or the timer
                  \* was stopped or resumed since

vars == <<running, minutes, timer_id, pending, trash_start, SPOTS, spot_file,
          spot_var, sessions, total_label, money_in, money_out, ret,
          ended, nticks, interrupted>>

timerVars == <<running, minutes, timer_id, pending, trash_start>>
spotVars == <<SPOTS, spot_file, spot_var>>
storeVars == <<sessions, total_label, money_in, money_out, ret>>
histVars == <<ended, nticks, interrupted>>

\* ---------------------------------------------------------------------------
\* Texts
\* ---------------------------------------------------------------------------
Digits == <<"0", "1", "2", "3", "4", "5", "6", "7", "8", "9">>

IsDigit(c) == \E i \in 1..10 : Digits[i] = c

DigitVal(c) == (CHOOSE i \in 1..10 : Digits[i] = c) - 1

RECURSIVE LStrip(_)
LStrip(s) == IF s # <<>> /\ Head(s) = " " THEN LStrip(Tail(s)) ELSE s

RECURSIVE RStrip(_)
RStrip(s) ==
    IF s # <<>> /\ s[Len(s)] = " " THEN RStrip(SubSeq(s, 1, Len(s) - 1)) ELSE s

\* str.strip(), with " " the only whitespace character of the texts used
Strip(s) == RStrip(LStrip(s))

RECURSIVE DigitsVal(_)
\* value of a run of digits and underscores, the underscores skipped
DigitsVal(s) ==
    IF s = <<>> THEN 0
    ELSE LET c == s[Len(s)]
             rest == SubSeq(s, 1, Len(s) - 1)
         IN  IF c = "_" THEN DigitsVal(rest)
             ELSE 10 * DigitsVal(rest) + DigitVal(c)

\* the body of an integer literal: digits, single underscores between digits
IsIntBody(s) ==
    /\ s # <<>>
    /\ IsDigit(s[1]) /\ IsDigit(s[Len(s)])
    /\ \A i \in 1..Len(s) : IsDigit(s[i]) \/ s[i] = "_"
    /\ \A i \in 1..(Len(s) - 1) : ~(s[i] = "_" /\ s[i + 1] = "_")

\* int(text): [ok |-> FALSE] stands for ValueError
ParseInt(text) ==
    LET t == Strip(text)
        signed == t # <<>> /\ t[1] \in {"-", "+"}
        body == IF signed THEN Tail(t) ELSE t
    IN  IF IsIntBody(body)
        THEN [ok |-> TRUE,
              val |-> IF signed /\ t[1] = "-" THEN 0 - DigitsVal(body)
                      ELSE DigitsVal(body)]
        ELSE [ok |-> FALSE, val |-> 0]

RECURSIVE NatToStr(_)
NatToStr(n) ==
    IF n < 10 THEN <<Digits[n + 1]>>
    ELSE NatToStr(n \div 10) \o <<Digits[(n % 10) + 1]>>

\* str(int(x)) for an integer x
IntToStr(n) == IF n < 0 THEN <<"-">> \o NatToStr(0 - n) ELSE NatToStr(n)


\* ---------------------------------------------------------------------------
\* Money formatting
\* ---------------------------------------------------------------------------
\* x/d formatted with ".0f": the quotient rounded to an integer, a tie going
\* to the even neighbour.  x/d is a correctly rounded double, which is an
\* exact tie only when the true quotient is one, for every x below 10^15.
RoundQuotientHalfUp(x, d) ==
    IF 2 * (x % d) >= d THEN (x \div d) + 1 ELSE x \div d

RoundQuotient(x, d) ==
    LET q == x \div d
        r == x % d
    IN  IF 2 * r < d THEN q
        ELSE IF 2 * r > d THEN q + 1
        ELSE IF q % 2 = 0 THEN q ELSE q + 1

format_money(x) ==
    IF x >= 1000000000 THEN IntToStr(RoundQuotient(x, 1000000000)) \o <<"G">>
    ELSE IF x >= 1000000 THEN IntToStr(RoundQuotient(x, 1000000)) \o <<"M">>
    ELSE IF x >= 1000 THEN IntToStr(RoundQuotient(x, 1000)) \o <<"K">>
    ELSE IntToStr(x)

\* ---------------------------------------------------------------------------
\* The price table: a dict, kept as the sequence of its items
\* ---------------------------------------------------------------------------
Keys(d) == {d[i].name : i \in 1..Len(d)}

KeyList(d) == [i \in 1..Len(d) |-> d[i].name]

\* d.get(k, default)
DictGet(d, k, default) ==
    IF k \in Keys(d) THEN d[CHOOSE i \in 1..Len(d) : d[i].name = k].price
    ELSE default

\* d[k] = v: an existing key keeps its position, a new key goes last
DictSet(d, k, v) ==
    IF k \in Keys(d)
    THEN [i \in 1..Len(d) |-> IF d[i].name = k THEN [name |-> k, price |-> v] ELSE d[i]]
    ELSE Append(d, [name |-> k, price |-> v])

\* del d[k], for k a key of d
DictDel(d, k) == SelectSeq(d, LAMBDA it : it.name # k)

\* save_spots(spots): the file is overwritten with the whole dict
save_spots(spots) == <<"dict", spots>>

\* load_spots(): the dict of the file, {} when the file is absent
load_spots(file) == IF file[1] = "dict" THEN file[2] ELSE <<>>

\* update_spot_listbox, its effect on spot_var: the first key when there is one
update_spot_listbox(spots, sv) == IF spots # <<>> THEN spots[1].name ELSE sv

\* ---------------------------------------------------------------------------
\* The session store
\* ---------------------------------------------------------------------------
\* datetime.date.today(): the date of the run, as a day number
Today == 0

\* add_session with the earnings taken from the end count instead of the gain
add_session_earned_from_end(spots, rows, spot, ts, te, duration, day) ==
    LET gained == te - ts
        earned == te * DictGet(spots, spot, 0)
    IN  [rows |-> Append(rows, [spot |-> spot, trash_start |-> ts, trash_end |-> te,
                               duration |-> duration, trash_gained |-> gained,
                               earned |-> earned, created_at |-> day]),
         ret |-> <<gained, earned>>]

\* add_session: the INSERT and the returned pair
add_session(spots, rows, spot, ts, te, duration, day) ==
    LET gained == te - ts
        earned == gained * DictGet(spots, spot, 0)
    IN  [rows |-> Append(rows, [spot |-> spot, trash_start |-> ts, trash_end |-> te,
                               duration |-> duration, trash_gained |-> gained,
                               earned |-> earned, created_at |-> day]),
         ret |-> <<gained, earned>>]

RECURSIVE SumEarned(_)
\* SELECT SUM(earned) FROM sessions, "or 0"
SumEarned(rows) ==
    IF rows = <<>> THEN 0 ELSE rows[Len(rows)].earned + SumEarned(SubSeq(rows, 1, Len(rows) - 1))

\* update_total: the text put on the total label
update_total(rows) == format_money(SumEarned(rows))

\* ---------------------------------------------------------------------------
\* The timer
\* ---------------------------------------------------------------------------
\* root.after returns an id no queued callback has; ids are opaque, so the
\* least one that is neither queued nor held in timer_id is taken
NewAfterId(pend, tid) ==
    CHOOSE i \in 1..(Cardinality(pend) + 2) : i \notin pend /\ i # tid

\* update_timer, called with the callback that fired (if any) already dequeued
update_timer(run, mins, tid, pend) ==
    IF run
    THEN LET id == NewAfterId(pend, tid)
         IN  [minutes |-> mins + 1, timer_id |-> id, pending |-> pend \cup {id}]
    ELSE [minutes |-> mins, timer_id |-> tid, pending |-> pend]

\* pause_timer: after_cancel of an id that is not queued does nothing
pause_timer(run, tid, pend) ==
    IF run
    THEN [running |-> FALSE, pending |-> IF tid # 0 THEN pend \ {tid} ELSE pend]
    ELSE [running |-> run, pending |-> pend]

\* ---------------------------------------------------------------------------
\* Inputs
\* ---------------------------------------------------------------------------
NameA == <<"a">>
NameB == <<"b">>

\* texts typed into the two count entries
CountTexts == {<<"1">>, <<" ", "3">>, <<"x">>, <<>>}

\* the count texts of the runs that also use the price-table tab
AppStartTexts == {<<"5">>, <<"x">>}
AppEndTexts == {<<" ", "3">>, <<"2", ".", "5">>}

\* texts typed into the price entry
PriceTexts == {<<"2">>, <<"5", " ">>, <<"2", ".", "5">>}

\* texts typed into the location-name entry
NameTexts == {<<" ">>, <<" ", "a", " ">>, NameB}

\* the name texts of the runs that use the price-table tab alone
EditorNameTexts == NameTexts \cup {NameA, <<"a", " ", "b">>}

\* texts selected or typed in the location combobox
SpotTexts == {NameA, NameB}

\* contents of spot.json at startup
InitFiles ==
    {<<"absent">>,
     <<"dict", <<[name |-> NameA, price |-> 2]>> >>,
     <<"dict", <<[name |-> NameB, price |-> 5], [name |-> NameA, price |-> 2]>> >>}

\* ---------------------------------------------------------------------------
\* Initial state: module load, init_db on a fresh database, App.__init__
\* ---------------------------------------------------------------------------
Init ==
    /\ running = FALSE
    /\ minutes = 0
    /\ timer_id = 0
    /\ pending = {}
    /\ trash_start = <<>>
    /\ spot_file \in InitFiles
    /\ SPOTS = load_spots(spot_file)
    /\ spot_var = (IF SPOTS # <<>> THEN KeyList(SPOTS)[1] ELSE <<>>)
    /\ sessions = <<>>
    /\ total_label = update_total(sessions)
    /\ ret = <<>>
    /\ ended = FALSE
    /\ nticks = 0
    /\ interrupted = FALSE
    /\ money_in = 0       \* no message box has been shown
    /\ money_out = <<>>

\* ---------------------------------------------------------------------------
\* Timer handlers
\* ---------------------------------------------------------------------------
start_timer(text) ==
    LET p == ParseInt(text)
    IN  IF ~p.ok
        THEN \* ValueError: the message box, then return
             UNCHANGED vars
        ELSE LET u == update_timer(TRUE, 0, timer_id, pending)
             IN  /\ trash_start' = <<p.val>>
                 /\ running' = TRUE
                 /\ minutes' = u.minutes
                 /\ timer_id' = u.timer_id
                 /\ pending' = u.pending
                 /\ ended' = FALSE
                 /\ nticks' = 0
                 /\ interrupted' = (trash_start # <<>> /\ ~ended)
                 /\ UNCHANGED <<spotVars, storeVars>>

\* a queued callback comes due: Tk dequeues it and calls update_timer
timer_fires(id) ==
    /\ id \in pending
    /\ LET u == update_timer(running, minutes, timer_id, pending \ {id})
       IN  /\ minutes' = u.minutes
           /\ timer_id' = u.timer_id
           /\ pending' = u.pending
    /\ nticks' = (IF running THEN nticks + 1 ELSE nticks)
    /\ UNCHANGED <<running, trash_start, spotVars, storeVars, ended, interrupted>>

\* the pause button: pause_timer as a handler
pause_button ==
    /\ LET q == pause_timer(running, timer_id, pending)
       IN  /\ running' = q.running
           /\ pending' = q.pending
    /\ interrupted' = (interrupted \/ running)
    /\ UNCHANGED <<minutes, timer_id, trash_start, spotVars, storeVars, ended, nticks>>

resume_timer ==
    IF ~running
    THEN LET u == update_timer(TRUE, minutes, timer_id, pending)
         IN  /\ running' = TRUE
             /\ minutes' = u.minutes
             /\ timer_id' = u.timer_id
             /\ pending' = u.pending
             /\ interrupted' = TRUE
             /\ UNCHANGED <<trash_start, spotVars, storeVars, ended, nticks>>
    ELSE UNCHANGED vars

end_session(text) ==
    LET q == pause_timer(running, timer_id, pending)
        p == ParseInt(text)
    IN  /\ running' = q.running
        /\ pending' = q.pending
        /\ UNCHANGED <<minutes, timer_id, trash_start, spotVars, nticks>>
        /\ IF ~p.ok
           THEN \* ValueError: the message box, then return
                /\ interrupted' = (interrupted \/ running)
                /\ UNCHANGED <<storeVars, ended>>
           ELSE IF trash_start = <<>>
           THEN \* self.trash_start does not exist: AttributeError, before add_session runs
                /\ interrupted' = (interrupted \/ running)
                /\ UNCHANGED <<storeVars, ended>>
           ELSE LET a == add_session(SPOTS, sessions, spot_var, trash_start[1],
                                     p.val, minutes, Today)
                IN  /\ sessions' = a.rows
                    /\ ret' = a.ret
                    /\ money_in' = a.ret[2]
                    /\ money_out' = format_money(a.ret[2])
                    /\ total_label' = update_total(a.rows)
                    /\ ended' = TRUE
                    /\ UNCHANGED interrupted

\* ---------------------------------------------------------------------------
\* Price-table editor
\* ---------------------------------------------------------------------------
\* add_spot without the check for an existing name
add_spot_overwrite(nameText, priceText) ==
    LET name == Strip(nameText)
        p == ParseInt(priceText)
    IN  IF ~p.ok \/ name = <<>>
        THEN UNCHANGED vars
        ELSE /\ SPOTS' = DictSet(SPOTS, name, p.val)
             /\ spot_file' = save_spots(SPOTS')
             /\ spot_var' = update_spot_listbox(SPOTS', spot_var)
             /\ UNCHANGED <<timerVars, storeVars, histVars>>

add_spot(nameText, priceText) ==
    LET name == Strip(nameText)
        p == ParseInt(priceText)
    IN  IF ~p.ok \/ name = <<>> \/ name \in Keys(SPOTS)
        THEN UNCHANGED vars
        ELSE /\ SPOTS' = DictSet(SPOTS, name, p.val)
             /\ spot_file' = save_spots(SPOTS')
             /\ spot_var' = update_spot_listbox(SPOTS', spot_var)
             /\ UNCHANGED <<timerVars, storeVars, histVars>>

\* sel: index of the selected listbox line, 0 when none is selected
update_spot(sel, nameText, priceText) ==
    LET new_name == Strip(nameText)
        p == ParseInt(priceText)
        old_name == KeyList(SPOTS)[sel]
    IN  IF \/ sel = 0
           \/ ~p.ok
           \/ new_name = <<>>
           \/ (new_name # old_name /\ new_name \in Keys(SPOTS))
        THEN UNCHANGED vars
        ELSE /\ SPOTS' = DictSet(DictDel(SPOTS, old_name), new_name, p.val)
             /\ spot_file' = save_spots(SPOTS')
             /\ spot_var' = update_spot_listbox(SPOTS', spot_var)
             /\ UNCHANGED <<timerVars, storeVars, histVars>>

\* delete_spot that also deletes the rows recorded under the location
delete_spot_cascade(sel) ==
    IF sel = 0
    THEN UNCHANGED vars
    ELSE /\ SPOTS' = DictDel(SPOTS, KeyList(SPOTS)[sel])
         /\ spot_file' = save_spots(SPOTS')
         /\ spot_var' = update_spot_listbox(SPOTS', spot_var)
         /\ sessions' = SelectSeq(sessions, LAMBDA r : r.spot # KeyList(SPOTS)[sel])
         /\ UNCHANGED <<timerVars, total_label, money_in, money_out, ret, histVars>>

delete_spot(sel) ==
    IF sel = 0
    THEN UNCHANGED vars
    ELSE /\ SPOTS' = DictDel(SPOTS, KeyList(SPOTS)[sel])
         /\ spot_file' = save_spots(SPOTS')
         /\ spot_var' = update_spot_listbox(SPOTS', spot_var)
         /\ UNCHANGED <<timerVars, storeVars, histVars>>

\* the user picks or types a location in the combobox bound to spot_var
select_spot(s) ==
    /\ spot_var' = s
    /\ UNCHANGED <<timerVars, SPOTS, spot_file, storeVars, histVars>>

\* ---------------------------------------------------------------------------
\* Specifications of the application
\* ---------------------------------------------------------------------------
\* the handlers of the play tab and the timer callback, within the bounds
TimerStep(startTexts, endTexts, maxMinutes, maxPending, maxSessions) ==
    \/ \E t \in startTexts :
         /\ Cardinality(pending) < maxPending
         /\ start_timer(t)
    \/ \E id \in pending :
         /\ running => minutes < maxMinutes
         /\ timer_fires(id)
    \/ \E t \in endTexts :
         /\ Len(sessions) < maxSessions
         /\ end_session(t)
    \/ pause_button
    \/ /\ ~running => (minutes < maxMinutes /\ Cardinality(pending) < maxPending)
       /\ resume_timer

\* the handlers of the price-table tab
EditorStep(nameTexts) ==
    \/ \E n \in nameTexts, p \in PriceTexts : add_spot(n, p)
    \/ \E sel \in 0..Len(SPOTS), n \in nameTexts, p \in PriceTexts : update_spot(sel, n, p)
    \/ \E sel \in 0..Len(SPOTS) : delete_spot(sel)

\* every handler: the user works on both tabs
Next ==
    \/ TimerStep(AppStartTexts, AppEndTexts, MaxMinutes, MaxPending, MaxSessions)
    \/ EditorStep(NameTexts)
    \/ \E s \in SpotTexts : select_spot(s)

Spec == Init /\ [][Next]_vars

\* the price-table tab alone: no session is timed
NextEditor ==
    \/ EditorStep(EditorNameTexts)
    \/ \E s \in SpotTexts : select_spot(s)

SpecEditor == Init /\ [][NextEditor]_vars

\* the play tab alone: the price table stays as loaded
NextTimer ==
    TimerStep(CountTexts, CountTexts, MaxTimerMinutes, MaxTimerPending, MaxTimerSessions)

SpecTimer == Init /\ [][NextTimer]_vars

\* ---------------------------------------------------------------------------
\* Specification of the money formatter: a message box formats an amount
\* ---------------------------------------------------------------------------
MoneyInputs ==
    {500 * m : m \in 0..MaxMult} \cup {500000 * m : m \in 0..MaxMult}
        \cup {500000000 * m : m \in 1..4}
        \cup {999, 1499, 1501, 999499, 999999, 1499999, 999999999}

show_money(x) ==
    /\ money_in' = x
    /\ money_out' = format_money(x)
    /\ UNCHANGED <<timerVars, spotVars, sessions, total_label, ret, histVars>>

NextFmt == \E x \in MoneyInputs : show_money(x)

SpecFmt == Init /\ [][NextFmt]_vars

\* ---------------------------------------------------------------------------
\* Properties
\* ---------------------------------------------------------------------------
AllCountTexts == CountTexts \cup AppStartTexts \cup AppEndTexts

\* the spec's timer states, read off the program state and its history
Idle == trash_start = <<>> \/ ended
InProgress == ~Idle
Paused == InProgress /\ ~running

LastRow(rows) == rows[Len(rows)]

\* C1: an end_session that records a session appends a row with the captured
\* start count and the entered end count, trash_gained = end - start and
\* earned = trash_gained * (price SPOTS holds for the selected location at
\* that moment, 0 when the location is not a key), and add_session returns
\* that (gained, earned).
C1_RecordedGainAndEarned ==
    [][\A t \in AllCountTexts :
         (sessions' # sessions /\ end_session(t)) =>
            LET r == LastRow(sessions')
            IN  /\ Len(sessions') = Len(sessions) + 1
                /\ r.spot = spot_var
                /\ r.trash_start = trash_start[1]
                /\ r.trash_end = ParseInt(t).val
                /\ r.trash_gained = r.trash_end - r.trash_start
                /\ \A i \in 1..Len(SPOTS) :
                     SPOTS[i].name = spot_var => r.earned = r.trash_gained * SPOTS[i].price
                /\ (\A i \in 1..Len(SPOTS) : SPOTS[i].name # spot_var) => r.earned = 0
                /\ ret' = <<r.trash_gained, r.earned>>]_vars

\* a session with a negative gain was recorded at price 5
C1_Witness ==
    /\ sessions # <<>>
    /\ LastRow(sessions).trash_gained < 0
    /\ LastRow(sessions).earned = 5 * LastRow(sessions).trash_gained
    /\ ret = <<LastRow(sessions).trash_gained, LastRow(sessions).earned>>

\* C2: the session store is append-only.  Every step keeps every stored row,
\* with all its fields, at its place; the store changes only by an
\* end_session step that appends exactly one row; no step of the price-table
\* tab, of the combobox, of start, pause, resume or the timer callback
\* changes it.
C2_StoreAppendOnly ==
    [][/\ Len(sessions') >= Len(sessions)
       /\ SubSeq(sessions', 1, Len(sessions)) = sessions
       /\ sessions' # sessions =>
            /\ Len(sessions') = Len(sessions) + 1
            /\ \E t \in AllCountTexts : end_session(t)
            /\ ~ ( \/ EditorStep(EditorNameTexts)
                   \/ \E s \in SpotTexts : select_spot(s)
                   \/ \E t \in AllCountTexts : start_timer(t)
                   \/ \E id \in pending : timer_fires(id)
                   \/ pause_button
                   \/ resume_timer )]_vars

\* a row with non-zero earnings is stored, its location is no longer a key
\* of the price table, and the timer has been started again since
C2_Witness ==
    /\ sessions # <<>>
    /\ sessions[1].earned # 0
    /\ sessions[1].spot \notin Keys(SPOTS)
    /\ running
    /\ ~ended

\* C7: add_spot fails, leaving SPOTS and spot.json as they were, when the
\* name is empty after trimming, the price is not an integer, or the name is
\* already a key; otherwise it inserts name -> price after the existing
\* entries, which stay as they were, and spot.json then holds the dict.
C7_AddSpotContract ==
    [][\A n \in EditorNameTexts, p \in PriceTexts :
         add_spot(n, p) =>
            IF Strip(n) = <<>> \/ ~ParseInt(p).ok
                 \/ \E i \in 1..Len(SPOTS) : SPOTS[i].name = Strip(n)
            THEN SPOTS' = SPOTS /\ spot_file' = spot_file
            ELSE /\ Len(SPOTS') = Len(SPOTS) + 1
                 /\ SubSeq(SPOTS', 1, Len(SPOTS)) = SPOTS
                 /\ SPOTS'[Len(SPOTS')] = [name |-> Strip(n), price |-> ParseInt(p).val]
                 /\ spot_file' = <<"dict", SPOTS'>>]_vars

\* " a " was added as "a", then "a b" at price 5 behind it, and saved;
\* adding "a" again now hits the existing name
C7_Witness ==
    /\ Len(SPOTS) = 3
    /\ SPOTS[2].name = NameA
    /\ SPOTS[3] = [name |-> <<"a", " ", "b">>, price |-> 5]
    /\ spot_file = <<"dict", SPOTS>>

\* C9 as stated: format_money(999) = "999", format_money(1500) = "2K",
\* format_money(2_500_000) = "3M", format_money(1_000_000_000) = "1G", and a
\* value halfway between two units is rounded up, in the K and in the M unit.
C9_TiesRoundUp ==
    money_out # <<>> =>
    /\ money_in = 999 => money_out = <<"9", "9", "9">>
    /\ money_in = 1500 => money_out = <<"2", "K">>
    /\ money_in = 2500000 => money_out = <<"3", "M">>
    /\ money_in = 1000000000 => money_out = <<"1", "G">>
    /\ (money_in >= 1000 /\ money_in < 1000000 /\ money_in % 1000 = 500)
         => money_out = IntToStr((money_in \div 1000) + 1) \o <<"K">>
    /\ (money_in >= 1000000 /\ money_in < 1000000000 /\ money_in % 1000000 = 500000)
         => money_out = IntToStr((money_in \div 1000000) + 1) \o <<"M">>

\* n is x/d rounded to an integer, a tie going to the even neighbour
NearestTiesToEven(n, x, d) ==
    LET q == x \div d
        r == x % d
    IN  /\ n \in {q, q + 1}
        /\ n = q => r <= d \div 2
        /\ n = q + 1 => r >= d \div 2
        /\ r = d \div 2 => n % 2 = 0

\* C9, amended: the amount is divided by the unit of the largest threshold
\* reached (1e9 G, 1e6 M, 1e3 K, else the plain integer) and rounded to the
\* nearest integer, a value halfway between two integers going to the even
\* one: format_money(999) = "999", format_money(1500) = "2K",
\* format_money(2500) = "2K", format_money(2_500_000) = "2M",
\* format_money(1_000_000_000) = "1G".
C9_TiesRoundToEven ==
    money_out # <<>> =>
    /\ money_in = 999 => money_out = <<"9", "9", "9">>
    /\ money_in = 1500 => money_out = <<"2", "K">>
    /\ money_in = 2500 => money_out = <<"2", "K">>
    /\ money_in = 2500000 => money_out = <<"2", "M">>
    /\ money_in = 1000000000 => money_out = <<"1", "G">>
    /\ money_in < 1000 => money_out = IntToStr(money_in)
    /\ \A u \in {<<1000, 1000000, "K">>, <<1000000, 1000000000, "M">>,
                 <<1000000000, 2147483647, "G">>} :
         (money_in >= u[1] /\ money_in < u[2]) =>
            \E n \in 0..1000 :
               /\ NearestTiesToEven(n, money_in, u[1])
               /\ money_out = IntToStr(n) \o <<u[3]>>

\* 2_500_000 has been formatted, as "2M"
C9_Witness == money_in = 2500000 /\ money_out = <<"2", "M">>

\* C3 as stated: a start_timer while a session is in progress (Running or
\* Paused) leaves elapsed, the captured start count and the queued callbacks
\* unchanged, and a start_timer with a non-integer count leaves the timer
\* state unchanged.
C3_StartOnlyFromIdle ==
    [][\A t \in AllCountTexts :
         start_timer(t) =>
            /\ InProgress => UNCHANGED <<minutes, trash_start, pending>>
            /\ ~ParseInt(t).ok => UNCHANGED timerVars]_vars

\* C4 as stated: resume_timer moves a Paused timer to Running and, in Idle
\* or Running, leaves the timer state, elapsed and the queued callbacks
\* unchanged.
C4_ResumeOnlyFromPaused ==
    [][resume_timer =>
         IF Paused THEN running'
         ELSE UNCHANGED <<running, minutes, pending>>]_vars

\* C5 as stated: an end_session before any start, or after a recorded end
\* with no start in between, appends no row.
C5_OneRowPerSession ==
    [][\A t \in AllCountTexts : (end_session(t) /\ Idle) => sessions' = sessions]_vars

\* C6 as stated: a start_timer from Idle with a valid count leaves the timer
\* Running with elapsed = 0, and an end_session with a valid count after N
\* callbacks, with no pause since that start, appends one row of duration N.
C6_DurationIsTickCount ==
    [][/\ \A t \in AllCountTexts :
            (start_timer(t) /\ Idle /\ ParseInt(t).ok) => (running' /\ minutes' = 0)
       /\ \A t \in AllCountTexts :
            (end_session(t) /\ InProgress /\ ~interrupted /\ ParseInt(t).ok) =>
               /\ Len(sessions') = Len(sessions) + 1
               /\ LastRow(sessions').duration = nticks]_vars

\* C8 as stated: an end_session with a non-integer count appends no row,
\* leaves elapsed and the captured start count unchanged, and leaves the
\* timer not Running with no callback queued.
C8_FailedEndKeepsSession ==
    [][\A t \in AllCountTexts :
         (end_session(t) /\ ~ParseInt(t).ok) =>
            /\ sessions' = sessions
            /\ minutes' = minutes
            /\ trash_start' = trash_start
            /\ ~running'
            /\ pending' = {}]_vars

\* C10 as stated: at most one callback is queued, and none while the timer
\* is not Running.
C10_SingleCallback ==
    /\ Cardinality(pending) <= 1
    /\ ~running => pending = {}

RECURSIVE MinutesAfterCallbacks(_, _)
\* the minute counter after n more update_timer callbacks of a running timer
MinutesAfterCallbacks(m, n) ==
    IF n = 0 THEN m
    ELSE MinutesAfterCallbacks(update_timer(TRUE, m, 0, {}).minutes, n - 1)

\* the duration of a session of start_timer, T callbacks, end_session
NoPauseDuration(T) == MinutesAfterCallbacks(update_timer(TRUE, 0, 0, {}).minutes, T)

\* C11 as stated: pause and resume of a session in progress leave elapsed
\* unchanged, and a session in which T callbacks ran while Running, with any
\* number of pause/resume cycles, is recorded with the duration of a session
\* of T callbacks and no pause.
C11_PauseResumeKeepElapsed ==
    [][/\ (InProgress /\ (pause_button \/ resume_timer)) => minutes' = minutes
       /\ \A t \in AllCountTexts :
            (sessions' # sessions /\ InProgress /\ end_session(t)) =>
               LastRow(sessions').duration = NoPauseDuration(nticks)]_vars

\* C12 as stated: adding a new location to the price table while a session
\* is in progress (Running or Paused) leaves the timer state, elapsed, the
\* captured start count and the location under which end will record the
\* session unchanged.
C12_AddKeepsSession ==
    [][\A n \in EditorNameTexts, p \in PriceTexts :
         (InProgress /\ SPOTS' # SPOTS /\ add_spot(n, p)) =>
            UNCHANGED <<running, minutes, timer_id, pending, trash_start, spot_var>>]_vars

====
